---- MODULE Spec2Model ----
(***************************************************************************)
(* Exact factorial HMM disaggregation (nilmtk/disaggregate/fhmm_exact.py): *)
(* canonicalisation of per-appliance HMMs, construction of the joint HMM,  *)
(* mixed-radix decoding of joint states, and the chunk loop of the driver. *)
(*                                                                         *)
(* Conventions.  Python lists and numpy arrays are sequences; a Python     *)
(* index i is the sequence index i + 1.  State indices (joint and local)   *)
(* keep their Python value, 0-based.  A probability is the numerator of a  *)
(* fraction with denominator ProbDen (ProbDen^N in the joint model of N    *)
(* appliances).  A power mean is a fixed-point number, counted in units of *)
(* 1/MeanScale.  An appliance HMM is a record                              *)
(* [startprob, means, covars, transmat].  An OrderedDict is a pair of      *)
(* sequences, its keys and its values in insertion order: learnt_keys and  *)
(* learnt_model are the fitted models of the latest training run,          *)
(* individual_keys and individual are self.individual.  combined records   *)
(* the keys in the order create_combined_hmm last combined them, and       *)
(* decode_keys the list the last disaggregate_chunk gave to decode_hmm.     *)
(***************************************************************************)
EXTENDS Integers, Sequences, FiniteSets, TLC

VARIABLES pc, learnt_model, individual, model, centroids, states,
          hmm_states, hmm_power, mains, pos, store, data_is_available,
          metadata_saved, raised, list_of_appliances, learnt_keys,
          individual_keys, combined, decode_keys

vars == <<pc, learnt_model, individual, model, centroids, states,
          hmm_states, hmm_power, mains, pos, store, data_is_available,
          metadata_saved, raised, list_of_appliances, learnt_keys,
          individual_keys, combined, decode_keys>>

-----------------------------------------------------------------------------
(* Bounds of the model *)

MaxStates == 3
MaxAppliances == 2
MaxUnmixAppliances == 4
MaxJoint == 9
MaxChunks == 2
MaxMissing == 1
LenSlack == 1
MeanScale == 2
ProbDen == 12
MaxBuildings == 2

(* Program constants *)

MIN_CHUNK_LENGTH == 100
JointCovar == 5

-----------------------------------------------------------------------------
(* Arithmetic helpers *)

RECURSIVE SumSeq(_)
SumSeq(s) == IF s = <<>> THEN 0 ELSE Head(s) + SumSeq(Tail(s))

\* np.sort(means, axis=0), list.sort(): ascending order
np_sort(means) == SortSeq(means, LAMBDA a, b : a < b)

\* ndarray.round(): round half to even, of a fixed-point value x / MeanScale
np_round(x) ==
    LET q == x \div MeanScale
        r == x % MeanScale
    IN  IF 2 * r < MeanScale THEN q
        ELSE IF 2 * r > MeanScale THEN q + 1
        ELSE IF q % 2 = 0 THEN q ELSE q + 1

\* a / b under "from __future__ import division": the exact quotient
TrueDiv(a, b) == [num |-> a, den |-> b]

\* x % k of a non-negative float x = num/den and a positive integer k
FloatMod(x, k) == [num |-> x.num % (x.den * k), den |-> x.den]

\* storing a non-negative float into an integer array truncates it
IntCast(x) == x.num \div x.den

-----------------------------------------------------------------------------
(* decode_hmm *)

RECURSIVE total_num_combinations(_, _)
total_num_combinations(cent, appliance_list) ==
    IF appliance_list = <<>> THEN 1
    ELSE Len(cent[Head(appliance_list)])
         * total_num_combinations(cent, Tail(appliance_list))

\* a mutation of decode_factor: factor is read before it is divided down
RECURSIVE decode_factor_stale(_, _, _)
decode_factor_stale(cent, appliance_list, j) ==
    IF j <= 1 THEN total_num_combinations(cent, appliance_list)
    ELSE decode_factor_stale(cent, appliance_list, j - 1)
         \div Len(cent[appliance_list[j - 1]])

\* the value of factor once the inner loop has reached the j-th appliance
RECURSIVE decode_factor(_, _, _)
decode_factor(cent, appliance_list, j) ==
    IF j = 0 THEN total_num_combinations(cent, appliance_list)
    ELSE decode_factor(cent, appliance_list, j - 1)
         \div Len(cent[appliance_list[j]])

\* hmm_states[appliance][i] for the j-th appliance of appliance_list
decode_state(cent, appliance_list, j, s) ==
    LET factor == decode_factor(cent, appliance_list, j)
        temp == TrueDiv(s, factor)
    IN  IntCast(FloatMod(temp, Len(cent[appliance_list[j]])))

\* [hmm_states, hmm_power], each a function of the appliance
decode_hmm(length_sequence, cent, appliance_list, sts) ==
    LET keys == {appliance_list[j] : j \in 1..Len(appliance_list)}
        jOf(a) == CHOOSE j \in 1..Len(appliance_list) : appliance_list[j] = a
        st == [a \in keys |->
                 [i \in 1..length_sequence |->
                    decode_state(cent, appliance_list, jOf(a), sts[i])]]
    IN  [hmm_states |-> st,
         hmm_power |-> [a \in keys |->
                          [i \in 1..length_sequence |-> cent[a][st[a][i] + 1]]]]

-----------------------------------------------------------------------------
(* State canonicaliser *)

\* np.where(val == means)[0][0]: the first index holding val
np_where_first(val, means) ==
    CHOOSE j \in 1..Len(means) :
        means[j] = val /\ \A l \in 1..(j - 1) : means[l] # val

\* mapping[i] = index in means of the i-th smallest value
return_sorting_mapping(means) ==
    LET means_copy == np_sort(means)
    IN  [i \in 1..Len(means_copy) |-> np_where_first(means_copy[i], means)]

Cols(A) == IF A = <<>> THEN 0 ELSE Len(A[1])

\* np.shape of a two-dimensional array
Shape(A) == <<Len(A), Cols(A)>>

\* mapping[i] is a KeyError past len(means); startprob[...] an IndexError
sort_startprob_raises(mapping, startprob) ==
    \E i \in 1..Len(startprob) :
        i \notin DOMAIN mapping \/ mapping[i] > Len(startprob)

sort_startprob(mapping, startprob) ==
    [i \in 1..Len(startprob) |-> startprob[mapping[i]]]

sort_covars_raises(mapping, covars) ==
    \E i \in 1..Len(covars) :
        i \notin DOMAIN mapping \/ mapping[i] > Len(covars)

sort_covars(mapping, covars) ==
    [i \in 1..Len(covars) |-> covars[mapping[i]]]

sort_transition_matrix_raises(mapping, A) ==
    \E i \in 1..Len(A) :
        \/ i \notin DOMAIN mapping
        \/ mapping[i] > Len(A)
        \/ \E r \in 1..Len(A) : mapping[i] > Len(A[r])

sort_transition_matrix(mapping, A) ==
    [i \in 1..Len(A) |-> [j \in 1..Len(A) |-> A[mapping[i]][mapping[j]]]]

sort_learnt_parameters_raises(startprob, means, covars, transmat) ==
    LET mapping == return_sorting_mapping(means)
    IN  \/ sort_startprob_raises(mapping, startprob)
        \/ sort_covars_raises(mapping, covars)
        \/ sort_transition_matrix_raises(mapping, transmat)
        \/ Len(np_sort(means)) # Len(means)
        \/ Len(sort_startprob(mapping, startprob)) # Len(startprob)
        \/ Shape(sort_transition_matrix(mapping, transmat)) # Shape(transmat)

sort_learnt_parameters(startprob, means, covars, transmat) ==
    LET mapping == return_sorting_mapping(means)
    IN  [startprob |-> sort_startprob(mapping, startprob),
         means |-> np_sort(means),
         covars |-> sort_covars(mapping, covars),
         transmat |-> sort_transition_matrix(mapping, transmat)]

-----------------------------------------------------------------------------
(* Joint model builder *)

\* np.kron of two vectors
kron_vec(a, b) ==
    [n \in 1..(Len(a) * Len(b)) |->
        a[((n - 1) \div Len(b)) + 1] * b[((n - 1) % Len(b)) + 1]]

\* a mutation of kron_mat: the operands are taken in the other order
kron_mat_swapped(A, B) ==
    [r \in 1..(Len(A) * Len(B)) |->
        [c \in 1..(Cols(A) * Cols(B)) |->
            B[((r - 1) \div Len(A)) + 1][((c - 1) \div Cols(A)) + 1]
            * A[((r - 1) % Len(A)) + 1][((c - 1) % Cols(A)) + 1]]]

\* np.kron of two matrices
kron_mat(A, B) ==
    [r \in 1..(Len(A) * Len(B)) |->
        [c \in 1..(Cols(A) * Cols(B)) |->
            A[((r - 1) \div Len(B)) + 1][((c - 1) \div Cols(B)) + 1]
            * B[((r - 1) % Len(B)) + 1][((c - 1) % Cols(B)) + 1]]]

RECURSIVE kron_fold_mat(_, _)
kron_fold_mat(result, rest) ==
    IF rest = <<>> THEN result
    ELSE kron_fold_mat(kron_mat(result, Head(rest)), Tail(rest))

RECURSIVE kron_fold_vec(_, _)
kron_fold_vec(result, rest) ==
    IF rest = <<>> THEN result
    ELSE kron_fold_vec(kron_vec(result, Head(rest)), Tail(rest))

compute_A_fhmm(list_A) == kron_fold_mat(list_A[1], Tail(list_A))

\* a mutation of compute_pi_fhmm: the loop stops one appliance early
compute_pi_fhmm_short(list_pi) ==
    kron_fold_vec(list_pi[1], SubSeq(list_pi, 2, Len(list_pi) - 1))

compute_pi_fhmm(list_pi) == kron_fold_vec(list_pi[1], Tail(list_pi))

\* itertools.product: result = [x + [y] for x in result for y in pool]
product_step(result, pool) ==
    [n \in 1..(Len(result) * Len(pool)) |->
        Append(result[((n - 1) \div Len(pool)) + 1],
               pool[((n - 1) % Len(pool)) + 1])]

\* a mutation of itertools_product: each pool is put in front of the
\* combinations built so far, which makes the first appliance vary fastest
RECURSIVE itertools_product_first_fastest(_, _)
itertools_product_first_fastest(result, pools) ==
    IF pools = <<>> THEN result
    ELSE itertools_product_first_fastest(
             [n \in 1..(Len(result) * Len(Head(pools))) |->
                 Append(result[((n - 1) % Len(result)) + 1],
                        Head(pools)[((n - 1) \div Len(result)) + 1])],
             Tail(pools))

RECURSIVE itertools_product(_, _)
itertools_product(result, pools) ==
    IF pools = <<>> THEN result
    ELSE itertools_product(product_step(result, Head(pools)), Tail(pools))

\* [means, cov]
compute_means_fhmm(list_means) ==
    LET states_combination == itertools_product(<< <<>> >>, list_means)
        num_combinations == Len(states_combination)
    IN  [means |-> [n \in 1..num_combinations |->
                       SumSeq(states_combination[n])],
         cov |-> [n \in 1..num_combinations |-> JointCovar]]

\* list_pi[0] is an IndexError when no appliance was learnt
create_combined_hmm_raises(m) == Len(m) = 0

create_combined_hmm(m) ==
    LET list_pi == [a \in 1..Len(m) |-> m[a].startprob]
        list_A == [a \in 1..Len(m) |-> m[a].transmat]
        list_means == [a \in 1..Len(m) |-> m[a].means]
        pi_combined == compute_pi_fhmm(list_pi)
        mc == compute_means_fhmm(list_means)
    IN  [n_components |-> Len(pi_combined),
         startprob |-> pi_combined,
         transmat |-> compute_A_fhmm(list_A),
         covars |-> mc.cov,
         means |-> mc.means]

-----------------------------------------------------------------------------
(* disaggregate_chunk: the centroids handed to decode_hmm *)

\* a mutation of chunk_means: astype(int) without round()
chunk_means_truncated(ind) ==
    [a \in 1..Len(ind) |->
        np_sort([i \in 1..Len(ind[a].means) |->
                    ind[a].means[i] \div MeanScale])]

\* model.means_.round().astype(int).flatten().tolist(), then .sort()
chunk_means(ind) ==
    [a \in 1..Len(ind) |->
        np_sort([i \in 1..Len(ind[a].means) |-> np_round(ind[a].means[i])])]

-----------------------------------------------------------------------------
(* The FHMM object and the inputs of its operations *)

\* self.model = {} of __init__
NoModel == [n_components |-> 0, startprob |-> <<>>, transmat |-> <<>>,
            covars |-> <<>>, means |-> <<>>]

Watts(w) == w * MeanScale

\* a fitted start distribution of k states, all entries different
FittedPrior(k) ==
    [i \in 1..k |-> IF i < k THEN i ELSE ProbDen - ((k * (k - 1)) \div 2)]

\* two fitted transition matrices of k states, every row summing to ProbDen
FittedTransmat(k, v) ==
    [i \in 1..k |-> [j \in 1..k |->
        IF v = 1 THEN FittedPrior(k)[((j - i) % k) + 1]
        ELSE IF j = i THEN ProbDen - ((k - 1) * i) ELSE i]]

\* what hmm.GaussianHMM(k, "full").fit returns, for the given means
FittedHMM(means, v) ==
    [startprob |-> FittedPrior(Len(means)),
     means |-> means,
     covars |-> [i \in 1..Len(means) |-> i],
     transmat |-> FittedTransmat(Len(means), v)]

SeqsUpTo(S, n) == UNION {[1..k -> S] : k \in 1..n}

BuildMeanVals == {Watts(5), Watts(10), Watts(50)}

RECURSIVE ProdSeq(_)
ProdSeq(s) == IF s = <<>> THEN 1 ELSE Head(s) * ProdSeq(Tail(s))

\* the state counts of the appliances of one training run
ShapeLists ==
    {ks \in SeqsUpTo(1..MaxStates, MaxAppliances) : ProdSeq(ks) <= MaxJoint}

\* the fitted models of appliances of ks states, their means taken in turn
\* from flat; neighbouring appliances get different transition matrices
FittedList(ks, flat, v) ==
    [a \in 1..Len(ks) |->
        FittedHMM(SubSeq(flat, SumSeq(SubSeq(ks, 1, a - 1)) + 1,
                         SumSeq(SubSeq(ks, 1, a))),
                  ((a + v) % 2) + 1)]

\* means [10, 100] and [5, 50]
ConcreteScenario ==
    <<FittedHMM(<<Watts(10), Watts(100)>>, 1),
      FittedHMM(<<Watts(5), Watts(50)>>, 1)>>

DropLast(s) == SubSeq(s, 1, Len(s) - 1)

\* appliance HMMs whose arrays disagree on the state count
MismatchedHMMs ==
    LET base == {FittedHMM(means, 1) :
                    means \in {<<Watts(5), Watts(10)>>,
                               <<Watts(10), Watts(5)>>,
                               <<Watts(5), Watts(10), Watts(50)>>,
                               <<Watts(50), Watts(5), Watts(10)>>}}
    IN  UNION {{[h EXCEPT !.startprob = DropLast(@)],
                [h EXCEPT !.startprob = Append(@, 0)],
                [h EXCEPT !.covars = DropLast(@)],
                [h EXCEPT !.covars = Append(@, 1)],
                [h EXCEPT !.transmat = DropLast(@)],
                [h EXCEPT !.transmat =
                    [i \in 1..(Len(@) - 1) |-> DropLast(@[i])]],
                [h EXCEPT !.means = DropLast(@)],
                [h EXCEPT !.means = Append(@, Watts(100))]} : h \in base}

\* further training runs: the scenario, no appliance at all, mismatched ones
ExtraInputs ==
    {ConcreteScenario, <<>>}
    \cup {<<h>> : h \in MismatchedHMMs}
    \cup {<<ConcreteScenario[1], h>> : h \in MismatchedHMMs}

UnmixCentroids ==
    SeqsUpTo({[j \in 1..k |-> 10 * j] : k \in 1..MaxStates}, MaxUnmixAppliances)

\* the ordered keys of an OrderedDict of n appliances
Keys(n) == [a \in 1..n |-> a]

InitObject ==
    /\ learnt_model = <<>>
    /\ individual = <<>>
    /\ model = NoModel
    /\ raised = FALSE
    /\ centroids = <<>>
    /\ states = <<>>
    /\ hmm_states = <<>>
    /\ hmm_power = <<>>
    /\ mains = <<>>
    /\ pos = 0
    /\ store = <<>>
    /\ data_is_available = FALSE
    /\ metadata_saved = FALSE
    /\ list_of_appliances = <<>>
    /\ learnt_keys = <<>>
    /\ individual_keys = <<>>
    /\ combined = <<>>
    /\ decode_keys = <<>>

-----------------------------------------------------------------------------
(* The state unmixer on its own: decode_hmm applied to one joint index *)

InitUnmix ==
    /\ pc = "unmix"
    /\ learnt_model = <<>>
    /\ individual = <<>>
    /\ model = NoModel
    /\ raised = FALSE
    /\ centroids \in UnmixCentroids
    /\ states = <<>>
    /\ hmm_states = <<>>
    /\ hmm_power = <<>>
    /\ mains = <<>>
    /\ pos = 0
    /\ store = <<>>
    /\ data_is_available = FALSE
    /\ metadata_saved = FALSE
    /\ list_of_appliances = <<>>
    /\ learnt_keys = <<>>
    /\ individual_keys = <<>>
    /\ combined = <<>>
    /\ decode_keys = <<>>

Unmix ==
    /\ pc = "unmix"
    /\ \E s \in 0..(total_num_combinations(centroids, Keys(Len(centroids))) - 1) :
         LET d == decode_hmm(1, centroids, Keys(Len(centroids)), <<s>>)
         IN  /\ states' = <<s>>
             /\ hmm_states' = d.hmm_states
             /\ hmm_power' = d.hmm_power
    /\ pc' = "unmixed"
    /\ UNCHANGED <<learnt_model, individual, model, raised, centroids, mains,
                   pos, store, data_is_available, metadata_saved,
                   list_of_appliances, learnt_keys, individual_keys,
                   combined, decode_keys>>

SpecUnmix == InitUnmix /\ [][Unmix]_vars

-----------------------------------------------------------------------------
(* The end of a training run, after the external fit: canonicalise every  *)
(* fitted model, combine them, assign self.individual and self.model      *)

\* keys and lm are the keys and the values of the fitted models, in the
\* order the loop over them iterates
Combine(keys, lm) ==
    LET sort_raises ==
            \E a \in 1..Len(lm) :
                sort_learnt_parameters_raises(lm[a].startprob, lm[a].means,
                                              lm[a].covars, lm[a].transmat)
        new_learnt_models ==
            [a \in 1..Len(lm) |->
                sort_learnt_parameters(lm[a].startprob, lm[a].means,
                                       lm[a].covars, lm[a].transmat)]
    IN  /\ learnt_model' = lm
        /\ learnt_keys' = keys
        /\ IF sort_raises \/ create_combined_hmm_raises(lm)
           THEN /\ raised' = TRUE
                /\ UNCHANGED <<individual, individual_keys, model, combined>>
           ELSE /\ raised' = FALSE
                /\ individual' = new_learnt_models
                /\ individual_keys' = keys
                /\ model' = create_combined_hmm(new_learnt_models)
                /\ combined' = keys

\* FHMM.train for the fitted models lm of the submeters, keyed by meter
Train(lm) == Combine(Keys(Len(lm)), lm)

\* one training run of a new FHMM object
TrainBuild ==
    /\ pc = "new"
    /\ \/ \E ks \in ShapeLists, v \in {0, 1} :
             \E flat \in [1..SumSeq(ks) -> BuildMeanVals] :
                Train(FittedList(ks, flat, v))
       \/ \E lm \in ExtraInputs : Train(lm)
    /\ pc' = "trained"
    /\ UNCHANGED <<centroids, states, hmm_states, hmm_power, mains, pos,
                   store, data_is_available, metadata_saved,
                   list_of_appliances, decode_keys>>

InitBuild == pc = "new" /\ InitObject

SpecBuild == InitBuild /\ [][TrainBuild]_vars

-----------------------------------------------------------------------------
(* The driver: train, disaggregate_chunk and the chunk loop of disaggregate *)
(*                                                                         *)
(* centroids, states, hmm_states and hmm_power are the locals and the      *)
(* result of the last disaggregate_chunk; mains, pos, store and            *)
(* data_is_available are the arguments and locals of the disaggregate call *)
(* in progress, gone when it returns; metadata_saved tells whether that    *)
(* call, or the last one, saved its metadata.  A mains chunk is            *)
(* [len, missing]: its number of rows and how many of them are NaN.  A     *)
(* frame of the output datastore is [key, chunk, rows]: key 0 is the mains *)
(* meter, key a the a-th appliance.                                        *)

DriverMeans ==
    << <<Watts(2) + 1>>,
       <<Watts(10) + 1, Watts(3) + 1>>,
       <<Watts(3) + 1, Watts(10), Watts(1) + 1>> >>

\* the a-th appliance of a run that starts off places into DriverMeans
DriverHMM(a, off) ==
    FittedHMM(DriverMeans[((a + off - 1) % Len(DriverMeans)) + 1], 1)

DriverInputs ==
    {[a \in 1..n |-> DriverHMM(a, off)] :
        n \in 0..MaxAppliances, off \in 0..(Len(DriverMeans) - 1)}

Chunks ==
    [len : {MIN_CHUNK_LENGTH - LenSlack, MIN_CHUNK_LENGTH,
            MIN_CHUNK_LENGTH + LenSlack},
     missing : {0, MaxMissing}]

MainsInputs == {<<>>} \cup SeqsUpTo(Chunks, MaxChunks)

\* test_mains of a direct disaggregate_chunk call: no minimum length applies
TestMains ==
    {c \in [len : 1..(1 + LenSlack), missing : 0..MaxMissing] :
        c.missing < c.len}

\* self.model.predict(temp): some path of T joint states of the K there are
Paths(K, T) == {[t \in 1..T |-> (t - 1) % K], [t \in 1..T |-> K - 1]}

\* len(test_mains.dropna().index)
dropna_length(test_mains) == test_mains.len - test_mains.missing

\* a mutation of chunk_too_short: a chunk of exactly the minimum is skipped
chunk_too_short_le(chunk) == chunk.len <= MIN_CHUNK_LENGTH

\* len(chunk) < self.MIN_CHUNK_LENGTH
chunk_too_short(chunk) == chunk.len < MIN_CHUNK_LENGTH

\* a mutation of means_keys: the keys in the reverse of their insertion order
means_keys_reversed(keys) ==
    [i \in 1..Len(keys) |-> keys[Len(keys) + 1 - i]]

\* means.keys(), for the OrderedDict means filled in a loop over
\* iteritems(self.individual): the keys of self.individual, in its order
means_keys(keys) == keys

\* the place of key in the OrderedDict whose keys are keys
PlaceOf(keys, key) == CHOOSE i \in 1..Len(keys) : keys[i] = key

\* FHMM.disaggregate_chunk, for the path the decoder returned; decode_hmm
\* gets the centroids by their place in means and the key list by places
disaggregate_chunk(learnt_states) ==
    LET means == chunk_means(individual)
        keys == means_keys(individual_keys)
        d == decode_hmm(Len(learnt_states), means,
                        [i \in 1..Len(keys) |-> PlaceOf(individual_keys, keys[i])],
                        learnt_states)
    IN  /\ centroids' = means
        /\ states' = learnt_states
        /\ hmm_states' = d.hmm_states
        /\ hmm_power' = d.hmm_power
        /\ decode_keys' = keys

InitDriver == pc = "idle" /\ InitObject

TrainCall ==
    /\ pc = "idle"
    /\ \E lm \in DriverInputs : Train(lm)
    /\ centroids' = <<>>
    /\ states' = <<>>
    /\ hmm_states' = <<>>
    /\ hmm_power' = <<>>
    /\ decode_keys' = <<>>
    /\ UNCHANGED <<pc, mains, pos, store, data_is_available, metadata_saved,
                   list_of_appliances>>

\* a direct call of disaggregate_chunk on a trained object
DisaggregateChunkCall ==
    /\ pc = "idle"
    /\ model # NoModel
    /\ \E test_mains \in TestMains :
         \E learnt_states \in Paths(model.n_components,
                                    dropna_length(test_mains)) :
            disaggregate_chunk(learnt_states)
    /\ UNCHANGED <<pc, learnt_model, individual, model, raised, mains, pos,
                   store, data_is_available, metadata_saved,
                   list_of_appliances, learnt_keys, individual_keys, combined>>

\* disaggregate up to its loop.  _pre_disaggregation_checks of the base
\* class refuses an object that holds no model, so the call goes on only
\* once a training run has assigned self.model.
DisaggregateBegin ==
    /\ pc = "idle"
    /\ model # NoModel
    /\ mains' \in MainsInputs
    /\ pos' = 0
    /\ store' = <<>>
    /\ data_is_available' = FALSE
    /\ centroids' = <<>>
    /\ states' = <<>>
    /\ hmm_states' = <<>>
    /\ hmm_power' = <<>>
    /\ metadata_saved' = FALSE
    /\ decode_keys' = <<>>
    /\ pc' = "loop"
    /\ UNCHANGED <<learnt_model, individual, model, raised,
                   list_of_appliances, learnt_keys, individual_keys, combined>>

\* one iteration of the loop that ends in "continue"
ChunkSkip ==
    /\ pc = "loop"
    /\ pos < Len(mains)
    /\ chunk_too_short(mains[pos + 1])
    /\ pos' = pos + 1
    /\ UNCHANGED <<pc, learnt_model, individual, model, raised, centroids,
                   states, hmm_states, hmm_power, mains, store,
                   data_is_available, metadata_saved, list_of_appliances,
                   learnt_keys, individual_keys, combined, decode_keys>>

\* one iteration of the loop that disaggregates the chunk and stores it
ChunkDisaggregate ==
    /\ pc = "loop"
    /\ pos < Len(mains)
    /\ ~chunk_too_short(mains[pos + 1])
    /\ LET chunk == mains[pos + 1]
           length == dropna_length(chunk)
           N == Len(individual)
           frames == IF length = 0 THEN <<>>
                     ELSE [a \in 1..N |->
                             [key |-> a, chunk |-> pos + 1, rows |-> length]]
       IN  /\ \E learnt_states \in Paths(model.n_components, length) :
                 disaggregate_chunk(learnt_states)
           /\ data_is_available' = (data_is_available \/ frames # <<>>)
           /\ store' = store \o frames
                       \o <<[key |-> 0, chunk |-> pos + 1, rows |-> chunk.len]>>
    /\ pos' = pos + 1
    /\ UNCHANGED <<pc, learnt_model, individual, model, raised, mains,
                   metadata_saved, list_of_appliances, learnt_keys,
                   individual_keys, combined>>

\* the loop is exhausted: save the metadata if anything was stored, return
DisaggregateEnd ==
    /\ pc = "loop"
    /\ pos = Len(mains)
    /\ metadata_saved' = data_is_available
    /\ pc' = "idle"
    /\ centroids' = <<>>
    /\ states' = <<>>
    /\ hmm_states' = <<>>
    /\ hmm_power' = <<>>
    /\ mains' = <<>>
    /\ pos' = 0
    /\ store' = <<>>
    /\ data_is_available' = FALSE
    /\ decode_keys' = <<>>
    /\ UNCHANGED <<learnt_model, individual, model, raised,
                   list_of_appliances, learnt_keys, individual_keys, combined>>

Next ==
    \/ TrainCall
    \/ DisaggregateChunkCall
    \/ DisaggregateBegin
    \/ ChunkSkip
    \/ ChunkDisaggregate
    \/ DisaggregateEnd

Spec == InitDriver /\ [][Next]_vars

-----------------------------------------------------------------------------
(* train_across_buildings, and the calls that follow training              *)
(*                                                                         *)
(* An appliance is named by a number.  The dataset gives, for an appliance *)
(* and a building, what the body of the try block does: the load raises,   *)
(* the activation is not above min_activation, or the power is appended to *)
(* o.  models is a plain dict: the loop over it may meet its keys in any   *)
(* order.  The method is taken as far as self.model; self.meters is built  *)
(* by external lookups.                                                    *)

KeySet(keys) == {keys[i] : i \in 1..Len(keys)}

\* one appliance in the buildings: the first n appended, the others in
\* turn a load that raises and an activation that is too low
LoadRows ==
    {[b \in 1..MaxBuildings |->
        IF b <= n THEN "appended"
        ELSE IF (b - n) % 2 = 1 THEN "raises" ELSE "inactive"] :
        n \in 0..MaxBuildings}

\* the datasets, as far as the appliances of the call go
Datasets(appliances) == [appliances -> LoadRows]

ListsOfAppliances ==
    {[i \in 1..n |-> i] : n \in 0..MaxAppliances}
    \cup {[i \in 1..MaxAppliances |-> MaxAppliances + 1 - i]}

\* len(o) after the loop over list_of_buildings
o_length(row) == Cardinality({b \in DOMAIN row : row[b] = "appended"})

\* mod after mod.fit(o), for mod = hmm.GaussianHMM(2, "full")
AcrossHMM(appliance) ==
    FittedHMM(<<Watts(10 * appliance) + 1, Watts(appliance)>>, 1)

\* the orders in which a dict of the keys S may be iterated
Orderings(S) ==
    {f \in [1..Cardinality(S) -> S] :
        \A i, j \in 1..Cardinality(S) : f[i] = f[j] => i = j}

\* the loop over list_of_appliances that fills models
TrainAcrossBuildingsFit ==
    /\ pc = "idle"
    /\ \E list \in ListsOfAppliances :
       \E ds \in Datasets(KeySet(list)) :
         LET fitted == {list[i] : i \in {i \in 1..Len(list) :
                                            o_length(ds[list[i]]) > 1}}
         IN  /\ list_of_appliances' = list
             /\ \E order \in Orderings(fitted) :
                    /\ learnt_keys' = order
                    /\ learnt_model' =
                           [i \in 1..Len(order) |-> AcrossHMM(order[i])]
    /\ pc' = "fitted"
    /\ centroids' = <<>>
    /\ states' = <<>>
    /\ hmm_states' = <<>>
    /\ hmm_power' = <<>>
    /\ decode_keys' = <<>>
    /\ UNCHANGED <<individual, individual_keys, model, combined, raised,
                   mains, pos, store, data_is_available, metadata_saved>>

\* the loop over models, create_combined_hmm and the two assignments
TrainAcrossBuildingsCombine ==
    /\ pc = "fitted"
    /\ Combine(learnt_keys, learnt_model)
    /\ pc' = "idle"
    /\ UNCHANGED <<list_of_appliances, centroids, states, hmm_states,
                   hmm_power, decode_keys, mains, pos, store,
                   data_is_available, metadata_saved>>

\* submeters one of whose fitted models trips sort_learnt_parameters
RaisingInputs ==
    {<<ConcreteScenario[1], h>> :
        h \in {g \in MismatchedHMMs :
                  /\ g.means = <<Watts(5), Watts(10)>>
                  /\ sort_learnt_parameters_raises(g.startprob, g.means,
                                                   g.covars, g.transmat)}}

\* a call of train that sort_learnt_parameters aborts
TrainRaisingCall ==
    /\ pc = "idle"
    /\ \E lm \in RaisingInputs : Train(lm)
    /\ centroids' = <<>>
    /\ states' = <<>>
    /\ hmm_states' = <<>>
    /\ hmm_power' = <<>>
    /\ decode_keys' = <<>>
    /\ UNCHANGED <<pc, mains, pos, store, data_is_available, metadata_saved,
                   list_of_appliances>>

InitAcross == pc = "idle" /\ InitObject

NextAcross ==
    \/ TrainCall
    \/ TrainRaisingCall
    \/ TrainAcrossBuildingsFit
    \/ TrainAcrossBuildingsCombine
    \/ DisaggregateChunkCall

SpecAcross == InitAcross /\ [][NextAcross]_vars

-----------------------------------------------------------------------------
(* Properties *)

ShapeConsistent(h) ==
    /\ Len(h.startprob) = Len(h.means)
    /\ Len(h.covars) = Len(h.means)
    /\ Len(h.transmat) = Len(h.means)
    /\ \A r \in 1..Len(h.transmat) : Len(h.transmat[r]) = Len(h.means)

\* a valid ApplianceHMM: matching state counts, prior and rows summing to 1
ValidHMM(h) ==
    /\ ShapeConsistent(h)
    /\ SumSeq(h.startprob) = ProbDen
    /\ \A r \in 1..Len(h.transmat) : SumSeq(h.transmat[r]) = ProbDen

AllShapeConsistent(m) == \A a \in 1..Len(m) : ShapeConsistent(m[a])

AllValid(m) == \A a \in 1..Len(m) : ValidHMM(m[a])

\* a training run that produced the joint model held by the object
Trained == pc = "trained" /\ ~raised

RECURSIVE MixedRadix(_, _, _)
MixedRadix(d, k, n) ==
    IF n = 0 THEN 0 ELSE MixedRadix(d, k, n - 1) * k[n] + d[n]

\* the local state index decode_hmm assigns to appliance a for joint index s
LocalState(ind, a, s) ==
    decode_hmm(1, chunk_means(ind), Keys(Len(ind)), <<s>>).hmm_states[a][1]

\* C1: for every list of appliance state counts and every joint index s,
\* the local indices decode_hmm writes lie in [0, k_i) and their mixed-radix
\* recombination, first appliance most significant, gives s back.
C1_RoundTrip ==
    pc = "unmixed" =>
        LET N == Len(centroids)
            k == [a \in 1..N |-> Len(centroids[a])]
            d == [a \in 1..N |-> hmm_states[a][1]]
        IN  /\ \A a \in 1..N : 0 <= d[a] /\ d[a] < k[a]
            /\ MixedRadix(d, k, N) = states[1]

C1_Witness ==
    /\ pc = "unmixed"
    /\ [a \in 1..Len(centroids) |-> Len(centroids[a])] = <<2, 3, 3, 2>>
    /\ states = <<35>>
    /\ hmm_states = << <<1>>, <<2>>, <<2>>, <<1>> >>

\* C2: the joint mean at index s is the sum over the appliances of the
\* appliance's mean at the local state decode_hmm unmixes from s; means
\* [10, 100] and [5, 50] give 15, 60, 105, 150.
C2_Additivity ==
    Trained =>
        /\ \A s \in 0..(Len(model.means) - 1) :
               model.means[s + 1] =
                   SumSeq([a \in 1..Len(individual) |->
                       individual[a].means[LocalState(individual, a, s) + 1]])
        /\ learnt_model = ConcreteScenario =>
               model.means = <<Watts(15), Watts(60), Watts(105), Watts(150)>>

C2_Witness ==
    /\ Trained
    /\ learnt_model = ConcreteScenario
    /\ model.means = <<Watts(10) + Watts(5), Watts(10) + Watts(50),
                       Watts(100) + Watts(5), Watts(100) + Watts(50)>>
    /\ LocalState(individual, 1, 2) = 1
    /\ LocalState(individual, 2, 2) = 0

\* C3: the joint prior at s is the product of the appliances' priors at the
\* local states of s, and the joint transition from s to s2 the product of
\* the appliances' transitions between the local states of s and of s2.
C3_KroneckerOrder ==
    (Trained /\ AllShapeConsistent(learnt_model)) =>
        LET N == Len(individual)
            K == ProdSeq([a \in 1..N |-> Len(individual[a].means)])
            local == SubSeq([i \in 1..K |->
                        SubSeq([a \in 1..N |->
                            LocalState(individual, a, i - 1)], 1, N)], 1, K)
            d(a, s) == local[s + 1][a]
        IN  \A s \in 0..(K - 1) :
              /\ model.startprob[s + 1] =
                   ProdSeq([a \in 1..N |-> individual[a].startprob[d(a, s) + 1]])
              /\ \A s2 \in 0..(K - 1) :
                   model.transmat[s + 1][s2 + 1] =
                     ProdSeq([a \in 1..N |->
                        individual[a].transmat[d(a, s) + 1][d(a, s2) + 1]])

C3_Witness ==
    /\ Trained
    /\ learnt_model = <<FittedHMM(<<Watts(10), Watts(5)>>, 2),
                        FittedHMM(<<Watts(5), Watts(50), Watts(10)>>, 1)>>
    /\ individual[1].startprob = <<11, 1>>
    /\ individual[2].startprob = <<1, 9, 2>>
    /\ model.startprob = <<11, 99, 22, 1, 9, 2>>
    /\ Len(model.transmat) = 6

RECURSIVE Pow(_, _)
Pow(b, e) == IF e = 0 THEN 1 ELSE b * Pow(b, e - 1)

RowsStochastic(A, den) == \A r \in 1..Len(A) : SumSeq(A[r]) = den

\* C4: for valid ApplianceHMMs, repeated means included, every row of each
\* canonicalised transition matrix sums to 1 and every row of the joint
\* transition matrix sums to 1.
C4_Stochasticity ==
    (pc = "trained" /\ learnt_model # <<>> /\ AllValid(learnt_model)) =>
        /\ ~raised
        /\ \A a \in 1..Len(individual) :
               RowsStochastic(individual[a].transmat, ProbDen)
        /\ RowsStochastic(model.transmat, Pow(ProbDen, Len(individual)))

IsPermutation(m, k) ==
    /\ DOMAIN m = 1..k
    /\ {m[i] : i \in 1..k} = 1..k

\* C5: the mapping return_sorting_mapping computes is a permutation of the
\* state indices for every means vector, duplicates included, so that no
\* original state is dropped or used twice.
C5_MappingIsPermutation ==
    pc = "trained" =>
        \A a \in 1..Len(learnt_model) :
            IsPermutation(return_sorting_mapping(learnt_model[a].means),
                          Len(learnt_model[a].means))

IsAscending(means) == \A i \in 1..(Len(means) - 1) : means[i] <= means[i + 1]

\* C6: canonicalising a canonicalised ApplianceHMM changes nothing, and the
\* mapping of means already in ascending order is the identity.
C6_Idempotence ==
    (Trained /\ AllValid(learnt_model)) =>
        \A a \in 1..Len(learnt_model) :
            LET once == individual[a]
                twice == sort_learnt_parameters(once.startprob, once.means,
                                                once.covars, once.transmat)
            IN  /\ twice = once
                /\ IsAscending(learnt_model[a].means) =>
                       return_sorting_mapping(learnt_model[a].means)
                           = [i \in 1..Len(learnt_model[a].means) |-> i]

\* C7: the joint model of N >= 1 canonicalised appliances has K = product of
\* the k_i states, prior, means and covariance of length K and a K x K
\* transition matrix, and K is the total_num_combinations of decode_hmm.
C7_JointStateCount ==
    (Trained /\ AllShapeConsistent(learnt_model)) =>
        LET N == Len(individual)
            K == ProdSeq([a \in 1..N |-> Len(individual[a].means)])
        IN  /\ N >= 1
            /\ model.n_components = K
            /\ Len(model.startprob) = K
            /\ Len(model.means) = K
            /\ Len(model.covars) = K
            /\ Len(model.transmat) = K
            /\ \A r \in 1..K : Len(model.transmat[r]) = K
            /\ total_num_combinations(chunk_means(individual), Keys(N)) = K

C7_Witness ==
    /\ Trained
    /\ AllShapeConsistent(learnt_model)
    /\ [a \in 1..Len(individual) |-> Len(individual[a].means)] = <<2, 3>>
    /\ model.n_components = 6
    /\ Len(model.means) = 6
    /\ Len(model.transmat[6]) = 6

\* C10: an ApplianceHMM whose prior, transition matrix, means and
\* covariances disagree on the state count aborts model construction, and
\* no joint model is produced.
C10_ShapeMismatchFatal ==
    (pc = "trained" /\ ~AllShapeConsistent(learnt_model)) =>
        raised /\ model = NoModel

\* the rows the store holds under a key for a chunk of the mains
RECURSIVE RowsOf(_, _, _)
RowsOf(frames, key, c) ==
    IF frames = <<>> THEN 0
    ELSE (IF Head(frames).key = key /\ Head(frames).chunk = c
          THEN Head(frames).rows ELSE 0) + RowsOf(Tail(frames), key, c)

FramesOf(c) == {i \in 1..Len(store) : store[i].chunk = c}

InDisaggregate == pc = "loop"

C9_PowerIsMean ==
    (hmm_power # <<>> /\ individual # <<>>) =>
        \A a \in 1..Len(individual) : \A t \in 1..Len(states) :
            Watts(hmm_power[a][t]) = individual[a].means[hmm_states[a][t] + 1]

\* C9, amended: the power emitted for appliance a at step t is the
\* appliance's canonical mean at its unmixed local state, rounded to the
\* nearest integer.
C9_PowerIsRoundedMean ==
    (hmm_power # <<>> /\ individual # <<>>) =>
        LET N == Len(individual)
            local == SubSeq([i \in 1..model.n_components |->
                        SubSeq([a \in 1..N |->
                            LocalState(individual, a, i - 1)], 1, N)],
                        1, model.n_components)
        IN  \A a \in 1..N : \A t \in 1..Len(states) :
                /\ hmm_states[a][t] = local[states[t] + 1][a]
                /\ hmm_power[a][t] =
                       np_round(individual[a].means[hmm_states[a][t] + 1])

C9_Witness ==
    /\ pc = "idle"
    /\ Len(individual) = 2
    /\ individual[1].means = <<Watts(3) + 1, Watts(10) + 1>>
    /\ individual[2].means = <<Watts(1) + 1, Watts(3) + 1, Watts(10)>>
    /\ Len(states) = 2
    /\ states[2] = 1
    /\ hmm_states[2][2] = 1
    /\ hmm_power[2][2] = np_round(Watts(3) + 1)
    /\ Watts(hmm_power[2][2]) # individual[2].means[2]


\* the appliances of the call for which the loop over the buildings left
\* fewer than two arrays in o, so that no model was fitted
Excluded == KeySet(list_of_appliances) \ KeySet(learnt_keys)

\* C11: whatever the list of appliances and the buildings, the run of
\* train_across_buildings completes without raising, and the trained model
\* holds exactly the appliances that were not excluded; this for any number
\* of excluded appliances, all of them included.
C11_ExcludedNotFatal ==
    [][TrainAcrossBuildingsCombine =>
          /\ ~raised'
          /\ KeySet(individual_keys') = KeySet(list_of_appliances) \ Excluded
          /\ Len(individual') = Len(individual_keys')
          /\ model' = create_combined_hmm(individual')]_vars

\* the models the object holds were combined in the order of combined, from
\* one training run, whose fitted models they are if it was the latest call
HeldFromOneRun ==
    (pc = "idle" /\ model # NoModel) =>
        /\ individual_keys = combined
        /\ Len(individual) = Len(individual_keys)
        /\ model = create_combined_hmm(individual)
        /\ ~raised =>
              /\ individual_keys = learnt_keys
              /\ individual =
                    [a \in 1..Len(learnt_model) |->
                        sort_learnt_parameters(learnt_model[a].startprob,
                                               learnt_model[a].means,
                                               learnt_model[a].covars,
                                               learnt_model[a].transmat)]

\* the last disaggregate_chunk gave decode_hmm the keys in the order they
\* were combined in, and unmixed every joint state by that order
DecodedInCombinedOrder ==
    decode_keys # <<>> =>
        /\ decode_keys = combined
        /\ \A a \in 1..Len(combined) : \A t \in 1..Len(states) :
               hmm_states[a][t] = LocalState(individual, a, states[t])

====
